---- MODULE Spec2Model ----
(***************************************************************************)
(* Model of src/ollama_tool.py: the chunker (chunk_text), the resilient    *)
(* JSON extractor (try_parse_json), and the per-chunk loop of main with    *)
(* its scratch prompt file, aggregation and final save.                    *)
(*                                                                         *)
(* Python strings are sequences of one-character strings.  Python values   *)
(* are records [t |-> type name, v |-> payload].                           *)
(***************************************************************************)
EXTENDS Integers, Sequences, FiniteSets, TLC

VARIABLES
    text,         \* chunk_text: parameter text (main: doc_text)
    chunk_size,   \* chunk_text: parameter chunk_size (main: args.chunk_size)
    overlap,      \* chunk_text: parameter overlap
    start,        \* chunk_text: local start
    end,          \* chunk_text: local end
    chunks,       \* chunk_text: local chunks; after the return, main's chunks
    cpc,          \* position inside chunk_text
    user_prompt,  \* main: args.prompt
    temp_prompt,  \* main: args.temp_prompt (NoPath when not given)
    pc,           \* position inside main (or the function called on its own)
    i,            \* main: 0-based index of the chunk of the current iteration
    prompt_file,  \* main: local prompt_file
    out,          \* main: local out, the stdout of the model command
    parsed,       \* main: local parsed
    all_parsed,   \* main: local all_parsed
    files,        \* the prompt files on disk that the run created, with their content
    out_file,     \* the table written to args.out, or NoFile
    printed,      \* lines printed on stdout, in order
    invoked       \* the model commands run so far: prompt read, exit status, stdout

vars == <<text, chunk_size, overlap, start, end, chunks, cpc, user_prompt,
          temp_prompt, pc, i, prompt_file, out, parsed, all_parsed, files,
          out_file, printed, invoked>>

chunkVars == <<text, chunk_size, overlap, start, end, chunks, cpc>>
mainVars == <<user_prompt, temp_prompt, pc, i, prompt_file, out, parsed,
              all_parsed, files, out_file, printed, invoked>>

(***************************************************************************)
(* Bounds                                                                  *)
(***************************************************************************)
MaxLen == 4          \* longest text handed to chunk_text on its own
MaxSize == 3         \* largest chunk_size handed to chunk_text on its own
MaxOverlap == 3      \* largest overlap handed to chunk_text on its own
MaxChunks == MaxLen + 2   \* chunks a list holds before append raises MemoryError

Min(a, b) == IF a < b THEN a ELSE b
Max(a, b) == IF a > b THEN a ELSE b

SeqsUpTo(S, n) == UNION {[1..k -> S] : k \in 0..n}

DocChars == {"a", "b"}

(***************************************************************************)
(* Python values                                                           *)
(***************************************************************************)
None == [t |-> "None", v |-> <<>>]
PyInt(n) == [t |-> "int", v |-> n]
PyStr(q) == [t |-> "str", v |-> q]
PyList(xs) == [t |-> "list", v |-> xs]
PyDict(ps) == [t |-> "dict", v |-> ps]

\* file names: args.temp_prompt, or a fresh name of tempfile.mkstemp
NoPath == [dir |-> "none", n |-> 0]
TempPromptPath == [dir |-> "arg", n |-> 0]
Scratch(k) == [dir |-> "tmp", n |-> k]
NoFile == [fmt |-> "none", df |-> <<>>]

\* s[a:b] of Python: negative indices count from the end, both are clamped
PyIndex(n, a) == IF a < 0 THEN Max(n + a, 0) ELSE Min(a, n)
PySlice(q, a, b) == SubSeq(q, PyIndex(Len(q), a) + 1, PyIndex(Len(q), b))

(***************************************************************************)
(* chunk_text                                                              *)
(***************************************************************************)
\* one iteration of the while loop: the window is appended, start moves to
\* end - overlap, and the break is taken when start reached the end; an
\* append to a list that memory cannot hold raises MemoryError, which leaves
\* chunk_text and its caller
ChunkStep ==
    /\ cpc = "while"
    /\ start < Len(text)
    /\ end' = Min(start + chunk_size, Len(text))
    /\ IF Len(chunks) < MaxChunks
       THEN /\ chunks' = Append(chunks, PySlice(text, start, end'))
            /\ start' = end' - overlap
            /\ cpc' = IF start' >= Len(text) THEN "break" ELSE "while"
            /\ pc' = pc
       ELSE /\ chunks' = chunks
            /\ start' = start
            /\ cpc' = "raised"
            /\ pc' = "raised"
    /\ UNCHANGED <<text, chunk_size, overlap>>
    /\ UNCHANGED <<user_prompt, temp_prompt, i, prompt_file, out, parsed,
                   all_parsed, files, out_file, printed, invoked>>

\* the return statement, reached by the break or by the loop condition
ChunkReturn ==
    /\ \/ cpc = "break"
       \/ cpc = "while" /\ ~(start < Len(text))
    /\ chunks' = IF chunks # <<>> THEN chunks ELSE <<text>>
    /\ cpc' = "returned"
    /\ UNCHANGED <<text, chunk_size, overlap, start, end>>
    /\ UNCHANGED mainVars

\* main's locals before main runs, or when a function is called on its own
MainIdle ==
    /\ user_prompt = <<>>
    /\ temp_prompt = NoPath
    /\ i = 0
    /\ prompt_file = NoPath
    /\ out = <<>>
    /\ parsed = None
    /\ all_parsed = <<>>
    /\ files = {}
    /\ out_file = NoFile
    /\ printed = <<>>
    /\ invoked = <<>>

ChunkEntry ==
    /\ start = 0
    /\ end = 0
    /\ chunks = <<>>
    /\ cpc = "while"

\* chunk_text(text, chunk_size, overlap) called on its own
InitChunk ==
    /\ text \in SeqsUpTo(DocChars, MaxLen)
    /\ chunk_size \in 1..MaxSize
    /\ overlap \in 0..MaxOverlap
    /\ ChunkEntry
    /\ pc = "chunk_text"
    /\ MainIdle

NextChunk == ChunkStep \/ ChunkReturn

SpecChunk == InitChunk /\ [][NextChunk]_vars

(***************************************************************************)
(* Claims about chunk_text                                                 *)
(***************************************************************************)
\* the contract's precondition: size > 0 and 0 <= overlap < size
ValidArgs == chunk_size > 0 /\ 0 <= overlap /\ overlap < chunk_size

Drop(q, k) == SubSeq(q, k + 1, Len(q))

RECURSIVE Reassemble(_, _)
\* the first chunk followed by every later chunk without its first ov characters
Reassemble(cs, ov) ==
    IF cs = <<>> THEN <<>>
    ELSE IF Len(cs) = 1 THEN cs[1]
    ELSE Reassemble(SubSeq(cs, 1, Len(cs) - 1), ov) \o Drop(cs[Len(cs)], ov)

\* C1: with size > 0 and 0 <= overlap < size, once the window just emitted
\* ended at the end of the text, chunk_text emits no further chunk.
C1_NoChunkAfterEnd ==
    [][(ValidArgs /\ chunks # <<>> /\ end = Len(text)) => chunks' = chunks]_vars

\* C2: with 0 <= overlap < size, a call of chunk_text ends by returning a
\* sequence of chunks that is non-empty and that reassembles to the text once
\* the overlap is removed.
C2_ProducesReassembling ==
    (ValidArgs /\ cpc \in {"returned", "raised"}) =>
        /\ cpc = "returned"
        /\ chunks # <<>>
        /\ Reassemble(chunks, overlap) = text

\* C3: with overlap >= size, chunk_text emits no chunk and does not return
\* a result: it fails with a configuration error.
C3_RejectsBadOverlap ==
    (overlap >= chunk_size) => (chunks = <<>> /\ cpc # "returned")

(***************************************************************************)
(* json.loads, on texts over JsonChars                                     *)
(***************************************************************************)
JsonChars == {"{", "}", "[", "]", "1", ",", "x", "\"", ":"}

Fail == [ok |-> FALSE, v |-> None, n |-> 0]
Ok(val, nxt) == [ok |-> TRUE, v |-> val, n |-> nxt]

At(q, p) == IF p >= 1 /\ p <= Len(q) THEN q[p] ELSE "EOF"

RECURSIVE Ones(_)
Ones(k) == IF k = 0 THEN 0 ELSE 10 * Ones(k - 1) + 1

\* the position after the run of digits that starts at p
DigitsEnd(q, p) ==
    CHOOSE j \in p..(Len(q) + 1) :
        /\ \A k \in p..(j - 1) : q[k] = "1"
        /\ At(q, j) # "1"

\* a string literal whose opening quote is at p
ParseString(q, p) ==
    LET closing == {j \in (p + 1)..Len(q) : q[j] = "\""}
    IN  IF At(q, p) # "\"" \/ closing = {} THEN Fail
        ELSE LET j == CHOOSE c \in closing : \A d \in closing : c <= d
             IN  Ok(PyStr(SubSeq(q, p + 1, j - 1)), j + 1)

\* dict[k] = val: a key seen again keeps its place and takes the new value
DictSet(ps, k, val) ==
    IF \E j \in 1..Len(ps) : ps[j][1] = k
    THEN [j \in 1..Len(ps) |-> IF ps[j][1] = k THEN <<k, val>> ELSE ps[j]]
    ELSE Append(ps, <<k, val>>)

RECURSIVE ParseValue(_, _)
RECURSIVE ParseElems(_, _, _)
RECURSIVE ParseMembers(_, _, _)

\* the elements of an array after "[" or ",": value, then "," or "]"
ParseElems(q, p, acc) ==
    LET r == ParseValue(q, p)
    IN  IF ~r.ok THEN Fail
        ELSE IF At(q, r.n) = "]" THEN Ok(PyList(Append(acc, r.v)), r.n + 1)
        ELSE IF At(q, r.n) = "," THEN ParseElems(q, r.n + 1, Append(acc, r.v))
        ELSE Fail

\* the members of an object after "{" or ",": string, ":", value, then "," or "}"
ParseMembers(q, p, acc) ==
    LET k == ParseString(q, p)
    IN  IF ~k.ok \/ At(q, k.n) # ":" THEN Fail
        ELSE LET r == ParseValue(q, k.n + 1)
             IN  IF ~r.ok THEN Fail
                 ELSE IF At(q, r.n) = "}"
                      THEN Ok(PyDict(DictSet(acc, k.v.v, r.v)), r.n + 1)
                 ELSE IF At(q, r.n) = ","
                      THEN ParseMembers(q, r.n + 1, DictSet(acc, k.v.v, r.v))
                 ELSE Fail

ParseValue(q, p) ==
    LET c == At(q, p)
    IN  IF c = "1" THEN Ok(PyInt(Ones(DigitsEnd(q, p) - p)), DigitsEnd(q, p))
        ELSE IF c = "\"" THEN ParseString(q, p)
        ELSE IF c = "[" THEN
            IF At(q, p + 1) = "]" THEN Ok(PyList(<<>>), p + 2)
            ELSE ParseElems(q, p + 1, <<>>)
        ELSE IF c = "{" THEN
            IF At(q, p + 1) = "}" THEN Ok(PyDict(<<>>), p + 2)
            ELSE ParseMembers(q, p + 1, <<>>)
        ELSE Fail

\* json.loads(q): one value and nothing after it, or an exception (ok = FALSE)
json_loads(q) ==
    LET r == ParseValue(q, 1)
    IN  IF r.ok /\ r.n = Len(q) + 1 THEN r ELSE Fail

(***************************************************************************)
(* try_parse_json                                                          *)
(***************************************************************************)
Contains(q, c) == \E j \in 1..Len(q) : q[j] = c

\* q.index(c) and q.rindex(c), 0-based, for a q that contains c
Index(q, c) == (CHOOSE j \in 1..Len(q) : q[j] = c /\ \A k \in 1..(j - 1) : q[k] # c) - 1
RIndex_first(q, c) == Index(q, c)
RIndex(q, c) == (CHOOSE j \in 1..Len(q) : q[j] = c /\ \A k \in (j + 1)..Len(q) : q[k] # c) - 1

\* the inner try blocks: index, rindex and json.loads of the slice; a missing
\* delimiter raises like a slice that does not parse
SliceAttempt(q, open, close) ==
    IF ~Contains(q, open) \/ ~Contains(q, close) THEN Fail
    ELSE json_loads(PySlice(q, Index(q, open), RIndex(q, close) + 1))

try_parse_json(q) ==
    IF json_loads(q).ok THEN json_loads(q).v
    ELSE IF SliceAttempt(q, "{", "}").ok THEN SliceAttempt(q, "{", "}").v
    ELSE IF SliceAttempt(q, "[", "]").ok THEN SliceAttempt(q, "[", "]").v
    ELSE None

MaxReply == 4        \* longest model reply handed to try_parse_json on its own

Q == "\""
\* replies longer than MaxReply: an object with a key, bare and inside prose
SampleReplies ==
    { <<"{", Q, "x", Q, ":", "1", "}">>,
      <<"x", "{", Q, "x", Q, ":", "1", "}", "x">>,
      <<"x", "[", "{", Q, "x", Q, ":", "1", "}", ",", "{", "}", "]">>,
      <<"{", Q, "x", Q, ":", "1", ",", Q, "x", Q, ":", "[", "]", "}">>,
      <<"x", "x", "x", "x", "x">> }

ChunkIdle ==
    /\ text = <<>>
    /\ chunk_size = 0
    /\ overlap = 0
    /\ start = 0
    /\ end = 0
    /\ chunks = <<>>
    /\ cpc = "idle"

\* try_parse_json(out) called on its own
InitRecover ==
    /\ out \in SeqsUpTo(JsonChars, MaxReply) \cup SampleReplies
    /\ pc = "try_parse_json"
    /\ ChunkIdle
    /\ user_prompt = <<>>
    /\ temp_prompt = NoPath
    /\ i = 0
    /\ prompt_file = NoPath
    /\ parsed = None
    /\ all_parsed = <<>>
    /\ files = {}
    /\ out_file = NoFile
    /\ printed = <<>>
    /\ invoked = <<>>

Recover ==
    /\ pc = "try_parse_json"
    /\ parsed' = try_parse_json(out)
    /\ pc' = "recovered"
    /\ UNCHANGED chunkVars
    /\ UNCHANGED <<user_prompt, temp_prompt, i, prompt_file, out, all_parsed,
                   files, out_file, printed, invoked>>

SpecRecover == InitRecover /\ [][Recover]_vars

(***************************************************************************)
(* Claims about try_parse_json                                             *)
(***************************************************************************)
Positions(q, c) == {j \in 1..Len(q) : q[j] = c}
Least(S) == CHOOSE a \in S : \A b \in S : a <= b
Greatest(S) == CHOOSE a \in S : \A b \in S : a >= b

\* the text from the first open to the last close, both included, when both occur
Delimited(q, open, close) ==
    IF Positions(q, open) = {} \/ Positions(q, close) = {}
    THEN [has |-> FALSE, s |-> <<>>]
    ELSE [has |-> TRUE,
          s |-> SubSeq(q, Least(Positions(q, open)), Greatest(Positions(q, close)))]

Candidates(q) ==
    << [has |-> TRUE, s |-> q], Delimited(q, "{", "}"), Delimited(q, "[", "]") >>

Succeeds(cand) == cand.has /\ json_loads(cand.s).ok

\* C4: the result of try_parse_json is the JSON value of the first of the three
\* candidates (whole text, first "{" to last "}", first "[" to last "]") that
\* parses, a candidate without its delimiters counting as failed; it is None
\* when none parses; a result other than None is the value of a complete
\* parse of a contiguous slice of the text.
C4_FirstCandidateWins ==
    pc = "recovered" =>
        LET c == Candidates(out)
            winners == {k \in 1..3 : Succeeds(c[k])}
        IN  /\ winners # {} => parsed = json_loads(c[Least(winners)].s).v
            /\ winners = {} => parsed = None
            /\ parsed # None =>
                 \E a \in 1..Len(out), b \in 1..Len(out) :
                     /\ json_loads(SubSeq(out, a, b)).ok
                     /\ json_loads(SubSeq(out, a, b)).v = parsed

\* the third candidate decided: the whole text and the brace slice, which has
\* its delimiters, both failed and the bracket slice parsed
C4_Witness ==
    /\ pc = "recovered"
    /\ ~Succeeds(Candidates(out)[1])
    /\ Candidates(out)[2].has
    /\ ~Succeeds(Candidates(out)[2])
    /\ Succeeds(Candidates(out)[3])
    /\ parsed.t = "list"

(***************************************************************************)
(* main                                                                    *)
(***************************************************************************)
DefaultChunkSize == 8000
DefaultOverlap == 500

MaxDoc == 2          \* longest doc_text of a run
MaxChunkCount == 3   \* longest chunk list handed to the loop on its own

\* a code point that the text encoding of the prompt file cannot encode
\* (a lone surrogate, which is what a non-UTF-8 byte of argv decodes to)
Surrogate == "udcff"
UserPrompts == { <<"p">>, <<"p", Surrogate>> }

\* --chunk-size values of a run
ChunkSizes == {1, DefaultOverlap, DefaultChunkSize}

\* stdout of the model command
ReplySet ==
    { <<"{", Q, "x", Q, ":", "1", "}">>,
      <<"x", "[", "{", Q, "x", Q, ":", "1", "}", ",", "{", "}", "]">>,
      <<"x", "x", "x", "x", "x">>,
      <<"1">> }

Header == "You are a tool that extracts structured data ... decide what fields to extract.\n\n"

build_prompt(prompt, doc_text) ==
    <<Header, "USER INSTRUCTIONS:\n">> \o prompt \o <<"\n\nDOCUMENT TEXT:\n">> \o doc_text

\* f.write(full_prompt) on a text-mode file raises on a code point it cannot encode
Encodable(q) == \A k \in 1..Len(q) : q[k] # Surrogate

Line(m, a, b) == [msg |-> m, a |-> a, b |-> b]

FileWrite(fs, name, content) ==
    {f \in fs : f.name # name} \cup {[name |-> name, content |-> content]}
FileRemove(fs, name) == {f \in fs : f.name # name}
FileRead(fs, name) == (CHOOSE f \in fs : f.name = name).content

\* run_ollama_with_cmd: the stdout of the command, or RuntimeError on a
\* non-zero return code
run_ollama_with_cmd_ignore_rc(returncode, stdout) == [raised |-> FALSE, v |-> stdout]
run_ollama_with_cmd(returncode, stdout) ==
    IF returncode # 0 THEN [raised |-> TRUE, v |-> <<>>]
    ELSE [raised |-> FALSE, v |-> stdout]

\* lines 180-184: a list extends all_parsed, a dict is appended, anything
\* else (None included) leaves it alone
aggregate_append_list(acc, p) ==
    IF p # None /\ p.t \in {"list", "dict"} THEN Append(acc, p) ELSE acc
aggregate_replace(acc, p) ==
    IF p # None
    THEN IF p.t = "list" THEN p.v
         ELSE IF p.t = "dict" THEN <<p>>
         ELSE acc
    ELSE acc
aggregate(acc, p) ==
    IF p # None
    THEN IF p.t = "list" THEN acc \o p.v
         ELSE IF p.t = "dict" THEN Append(acc, p)
         ELSE acc
    ELSE acc

\* save_structured: the table written for a list or a dict, RuntimeError for
\* anything else; the suffix of the path picks the format
DataFrame(x) == [of |-> x]
AllValuesLists(ps) == \A k \in 1..Len(ps) : ps[k][2].t = "list"
save_structured(output_obj, suffix) ==
    LET fmt == IF suffix \in {".xlsx", ".xls"} THEN "excel" ELSE "csv"
    IN  IF output_obj.t = "list"
        THEN [raised |-> FALSE, file |-> [fmt |-> fmt, df |-> DataFrame(output_obj.v)]]
        ELSE IF output_obj.t = "dict"
        THEN IF AllValuesLists(output_obj.v)
             THEN [raised |-> FALSE, file |-> [fmt |-> fmt, df |-> DataFrame(output_obj.v)]]
             ELSE [raised |-> FALSE, file |-> [fmt |-> fmt, df |-> DataFrame(<<output_obj>>)]]
        ELSE [raised |-> TRUE, file |-> NoFile]

OutSuffix == ".csv"

\* line 187: if all_parsed
HasRecords_always(ap) == TRUE
HasRecords(ap) == ap # <<>>

\* lines 155-168: the head of one iteration: the progress line, the prompt,
\* and the prompt file (args.temp_prompt, or a fresh file of mkstemp); the
\* file exists before the write, and a write that raises leaves main
WritePrompt ==
    /\ pc = "for"
    /\ cpc = "returned"
    /\ i < Len(chunks)
    /\ LET full_prompt == build_prompt(user_prompt, chunks[i + 1])
           name == IF temp_prompt # NoPath THEN temp_prompt ELSE Scratch(i)
       IN  /\ printed' = IF Len(chunks) > 1
                         THEN Append(printed, Line("Processing chunk", i + 1, Len(chunks)))
                         ELSE printed
           /\ IF Encodable(full_prompt)
              THEN /\ files' = FileWrite(files, name, full_prompt)
                   /\ prompt_file' = name
                   /\ pc' = "invoke"
              ELSE /\ files' = FileWrite(files, name, <<>>)
                   /\ prompt_file' = prompt_file
                   /\ pc' = "raised"
    /\ UNCHANGED chunkVars
    /\ UNCHANGED <<user_prompt, temp_prompt, i, out, parsed, all_parsed,
                   out_file, invoked>>

\* lines 170-177: the model command reads the prompt file; the finally block
\* removes the file when args.temp_prompt was not given, whether or not
\* run_ollama_with_cmd raised
Invoke ==
    /\ pc = "invoke"
    /\ \E returncode \in {0, 1}, stdout \in ReplySet :
         LET r == run_ollama_with_cmd(returncode, stdout)
         IN  /\ invoked' = Append(invoked, [prompt |-> FileRead(files, prompt_file),
                                            rc |-> returncode,
                                            stdout |-> stdout])
             /\ files' = IF temp_prompt = NoPath
                         THEN FileRemove(files, prompt_file)
                         ELSE files
             /\ IF r.raised
                THEN pc' = "raised" /\ out' = out
                ELSE pc' = "parse" /\ out' = r.v
    /\ UNCHANGED chunkVars
    /\ UNCHANGED <<user_prompt, temp_prompt, i, prompt_file, parsed,
                   all_parsed, out_file, printed>>

\* lines 179-184, and the step of the for loop to the next chunk
Aggregate ==
    /\ pc = "parse"
    /\ parsed' = try_parse_json(out)
    /\ all_parsed' = aggregate(all_parsed, parsed')
    /\ i' = i + 1
    /\ pc' = "for"
    /\ UNCHANGED chunkVars
    /\ UNCHANGED <<user_prompt, temp_prompt, prompt_file, out, files,
                   out_file, printed, invoked>>

\* lines 186-191, after the last chunk
Finish ==
    /\ pc = "for"
    /\ cpc = "returned"
    /\ i >= Len(chunks)
    /\ IF HasRecords(all_parsed)
       THEN LET r == save_structured(PyList(all_parsed), OutSuffix)
            IN  IF r.raised
                THEN /\ pc' = "raised"
                     /\ UNCHANGED <<out_file, printed>>
                ELSE /\ out_file' = r.file
                     /\ printed' = Append(printed,
                                     Line("Saved structured output", Len(all_parsed), 0))
                     /\ pc' = "done"
       ELSE /\ printed' = Append(printed, Line("Warning: No valid JSON parsed", 0, 0))
            /\ out_file' = out_file
            /\ pc' = "done"
    /\ UNCHANGED chunkVars
    /\ UNCHANGED <<user_prompt, temp_prompt, i, prompt_file, out, parsed,
                   all_parsed, files, invoked>>

MainEntry ==
    /\ user_prompt \in UserPrompts
    /\ temp_prompt \in {NoPath, TempPromptPath}
    /\ pc = "for"
    /\ i = 0
    /\ prompt_file = NoPath
    /\ out = <<>>
    /\ parsed = None
    /\ all_parsed = <<>>
    /\ files = {}
    /\ out_file = NoFile
    /\ printed = <<>>
    /\ invoked = <<>>

\* a run of main from line 152: chunk_text(doc_text, chunk_size=args.chunk_size)
\* with the default overlap, then the loop over what it returns
Init ==
    /\ text \in SeqsUpTo(DocChars, MaxDoc)
    /\ chunk_size \in ChunkSizes
    /\ overlap = DefaultOverlap
    /\ ChunkEntry
    /\ MainEntry

Next == ChunkStep \/ ChunkReturn \/ WritePrompt \/ Invoke \/ Aggregate \/ Finish

Spec == Init /\ [][Next]_vars

\* the loop of main from line 153 on an arbitrary non-empty list of chunks
InitLoop ==
    /\ text = <<>>
    /\ chunk_size = DefaultChunkSize
    /\ overlap = DefaultOverlap
    /\ start = 0
    /\ end = 0
    /\ chunks \in UNION {[1..k -> {<<"a">>, <<"b">>}] : k \in 1..MaxChunkCount}
    /\ cpc = "returned"
    /\ MainEntry

NextLoop == WritePrompt \/ Invoke \/ Aggregate \/ Finish

SpecLoop == InitLoop /\ [][NextLoop]_vars

(***************************************************************************)
(* Claims about the loop of main                                           *)
(***************************************************************************)
Last(q) == q[Len(q)]
IsPrefix(p, q) == Len(p) <= Len(q) /\ SubSeq(q, 1, Len(p)) = p

\* what one recovered value contributes to the record set
Contribution(val) ==
    IF val.t = "list" THEN val.v
    ELSE IF val.t = "dict" THEN <<val>>
    ELSE <<>>

RECURSIVE RecordsOf(_)
\* the contributions of the replies rs, in order
RecordsOf(rs) ==
    IF rs = <<>> THEN <<>>
    ELSE RecordsOf(SubSeq(rs, 1, Len(rs) - 1))
             \o Contribution(try_parse_json(Last(rs).stdout))

\* the replies of the chunks whose iteration is over
Processed == SubSeq(invoked, 1, i)

InvocationFailed == invoked # <<>> /\ Last(invoked).rc # 0

\* C5: after any number of processed chunks all_parsed is the concatenation,
\* in chunk order, of each reply's contribution (the elements of an array in
\* order, an object as one record, nothing for no value), and a step never
\* removes, reorders or merges the records already there.
C5_Aggregation ==
    /\ [](pc \in {"for", "done"} => all_parsed = RecordsOf(Processed))
    /\ [][IsPrefix(all_parsed, all_parsed')]_vars

\* three chunks processed: an array of two, no value, then an object equal to
\* a record that is already there
C5_Witness ==
    /\ pc = "for"
    /\ i = 3
    /\ try_parse_json(invoked[1].stdout).t = "list"
    /\ try_parse_json(invoked[2].stdout) = None
    /\ try_parse_json(invoked[3].stdout).t = "dict"
    /\ Len(all_parsed) = 3
    /\ all_parsed[1] = all_parsed[3]

\* C6: a reply without a value does not abort: the loop goes on to the next
\* chunk with the records unchanged; and a run that ends has invoked the model
\* once per chunk, in chunk order, and when it prints a record count that
\* count is the number of records the replies contributed.
C6_NoValueContinues ==
    /\ [][(pc = "parse" /\ try_parse_json(out) = None)
             => (pc' = "for" /\ i' = i + 1 /\ all_parsed' = all_parsed)]_vars
    /\ [](pc = "done" =>
            /\ Len(invoked) = Len(chunks)
            /\ \A k \in 1..Len(chunks) :
                   /\ invoked[k].prompt = build_prompt(user_prompt, chunks[k])
                   /\ invoked[k].rc = 0
            /\ LET n == Len(RecordsOf(invoked))
               IN  IF n > 0
                   THEN /\ Last(printed) = Line("Saved structured output", n, 0)
                        /\ out_file.df = DataFrame(RecordsOf(invoked))
                   ELSE /\ Last(printed).msg # "Saved structured output"
                        /\ out_file = NoFile)

\* three chunks, an object, an unparsable reply, an object: 2 records saved
C6_Witness ==
    /\ pc = "done"
    /\ Len(chunks) = 3
    /\ try_parse_json(invoked[1].stdout).t = "dict"
    /\ try_parse_json(invoked[2].stdout) = None
    /\ try_parse_json(invoked[3].stdout).t = "dict"
    /\ Last(printed) = Line("Saved structured output", 2, 0)

\* C7: once a model command has exited non-zero the run is over: main has
\* raised, no output table exists, and nothing is invoked, written or
\* printed afterwards.
C7_FailedInvocationAborts ==
    /\ [](InvocationFailed => (pc = "raised" /\ out_file = NoFile))
    /\ [][InvocationFailed =>
             (invoked' = invoked /\ files' = files /\ out_file' = out_file
                /\ printed' = printed /\ pc' = pc)]_vars

\* the second of three chunks failed after the first contributed records
C7_Witness ==
    /\ InvocationFailed
    /\ Len(chunks) = 3
    /\ Len(invoked) = 2
    /\ all_parsed # <<>>
    /\ pc = "raised"

\* C8: without --temp-prompt no scratch prompt file exists once the step of
\* its chunk is over (between iterations, at the end, after an abort), and at
\* most one exists at any time.
C8_ScratchRemoved ==
    temp_prompt = NoPath =>
        /\ Cardinality(files) <= 1
        /\ pc \in {"for", "done", "raised"} => files = {}

\* main is past lines 186-191 and the record set is empty
EndedEmpty == cpc = "returned" /\ i >= Len(chunks) /\ pc # "for" /\ all_parsed = <<>>

Misses == {k \in 1..Len(invoked) :
              invoked[k].rc = 0 /\ try_parse_json(invoked[k].stdout) = None}

\* C10: a run that ends has printed a line reporting how many chunks gave no
\* recoverable value.
C10_MissesReported ==
    pc = "done" =>
        \E k \in 1..Len(printed) :
            printed[k] = Line("Chunks with no recoverable value", Cardinality(Misses), 0)

====
